---- MODULE Spec2Model ----
(***************************************************************************)
(* Credit-risk analytics toolkit: the synthetic loan generator             *)
(* (scripts/utils/generate_sample_data.py), the configuration              *)
(* (config/config.py), the dashboard (dashboards/app.py), the preview      *)
(* generator (scripts/create_dashboard_preview.py) and the exploration     *)
(* script (notebooks/exploration_full.py).                                 *)
(*                                                                         *)
(* Numbers with decimals are kept as integers in hundredths: int_rate 5.00 *)
(* is 500, dti 30.00 is 3000.                                              *)
(***************************************************************************)
EXTENDS Integers, Sequences, FiniteSets, TLC

VARIABLES
    mt,         \* which pseudo-random generator function the library implements
    npState,    \* state of numpy's global random source
    pyState,    \* state of Python's global random source
    gpc,        \* position inside generate_sample_loans ("idle" between calls)
    n_records,  \* argument of the running generate_sample_loans call
    dates,      \* local list `dates`
    df,         \* local DataFrame `df` of generate_sample_loans
    sampled,    \* the DataFrame as first built from the independent draws
    preRedraw,  \* the DataFrame as it stood right before the status re-draw
    returned,   \* the calls that returned so far: record count, random states at the call, table
    npAtCall,   \* numpy's random state when the running call started
    pyAtCall,   \* Python's random state when the running call started
    calls,      \* number of generate_sample_loans calls started
    draws,      \* number of unrelated random draws made between calls
    consumer,      \* the script this process runs: dashboard, exploration or preview
    processedFile, \* data/processed/loans_with_features.csv: NoFile or its table
    sampleFile,    \* data/sample/sample_loans_10k.csv: NoFile or its table
    cpc,           \* position inside the running consumer script
    cdf,           \* the consumer's DataFrame `df`
    cache,         \* st.cache_data entry of load_data: NoFile when empty
    attempts,      \* the sources load_data tried, in order, with what it found
    messages,      \* st.warning / st.error / printed error lines, in order
    view,          \* what the last page render produced
    reads,         \* columns the running script read without a presence check
    derived,       \* columns the running script added to its DataFrame itself
    errorKind,     \* "none" or the exception that ended the script
    derivations,   \* how many times the default-flag rule was applied to cdf
    firstDerived,  \* cdf right after the rule was applied the first time
    fsChanges,     \* number of files created or removed under the consumer
    dashboardsDir, \* whether the directory dashboards/ exists
    images,        \* the image files written so far
    firstRender,   \* the first page render of the process and whether others followed
    env,           \* the process environment: RANDOM_SEED and where the checkout lies
    config,        \* the module config.config: not imported, imported, or failed
    writes,        \* the to_csv calls of the generator script, in order, with their outcome
    data_path      \* the last get_data_path call: its arguments and what it returned

\* the generator's own variables
genOnly == <<pyState, gpc, n_records, dates, df, sampled, preRedraw, returned,
             npAtCall, pyAtCall, calls, draws>>

consVars == <<consumer, processedFile, sampleFile, cpc, cdf, cache, attempts,
              messages, view, reads, derived, errorKind, derivations, firstDerived, fsChanges,
              dashboardsDir, images, firstRender>>

\* the environment, the configuration and the generator script's output
cfgVars == <<env, config, writes, data_path>>

vars == <<mt, npState, genOnly, consVars, cfgVars>>

----------------------------------------------------------------------------
(* Bounds of the model *)

MaxRecords == 2
MaxCalls == 2
MaxDraws == 1
MaxGens == 6
MaxInitKey == 0
MaxSamples == 2
MaxFsChanges == 1
MaxDerivations == 2
MaxSelected == 1
MaxExplorerRows == 101
MaxExplorerGens == 2
MaxViewRows == 1
MaxViewGens == 2
Modulus == 16

----------------------------------------------------------------------------
(* The random sources.  numpy.random and random are deterministic          *)
(* generators: seeding fixes the state, every draw advances it, and the    *)
(* value drawn is a function of the state.  A state is [key, pos]: the key *)
(* the seed set and the number of values drawn since.  Which function the  *)
(* library computes is left open (mt), so that the tables range over more  *)
(* than one outcome.                                                       *)

SEED == 42

SeedState(seed) == [key |-> (seed * mt) % Modulus, pos |-> 0]

\* the raw output of the p-th draw after seeding with `key`
Mix(key, p) == (key * (p + 1) + mt * p * p + 3 * p) % Modulus

Pick(x, vals) == vals[(x % Len(vals)) + 1]

NextState(s) == [s EXCEPT !.pos = @ + 1]

\* k successive draws from `vals`, starting in state s
DrawN(s, k, vals) ==
    [state |-> [s EXCEPT !.pos = @ + k],
     out |-> [j \in 1..k |-> Pick(Mix(s.key, s.pos + j), vals)]]

----------------------------------------------------------------------------
(* Status and grade vocabularies *)

GRADES == <<"A", "B", "C", "D", "E", "F", "G">>

LOAN_STATUSES == <<"Fully Paid", "Current", "Charged Off",
                   "Late (31-120 days)", "Default">>

\* the re-draw taking the dashboard's short status name
REDRAW_STATUSES_Short == <<"Fully Paid", "Charged Off", "Late">>

REDRAW_STATUSES == <<"Fully Paid", "Charged Off", "Late (31-120 days)">>

DEFAULT_STATUSES == <<"Charged Off", "Default", "Late (31-120 days)">>

GOOD_STATUSES == <<"Fully Paid", "Current">>

Range(seq) == {seq[i] : i \in 1..Len(seq)}

----------------------------------------------------------------------------
(* generate_sample_loans: the columns drawn from numpy, in the order of    *)
(* the dict literal; each entry is <<column name, values it can take>>.    *)
(* Continuous ranges are represented by their ends and the values around   *)
(* the thresholds the correlation rules test.                              *)

NumpyColumns == <<
    <<"loan_amnt", <<1000, 20000, 39999>>>>,
    <<"funded_amnt", <<1000, 20000, 39999>>>>,
    <<"term", <<" 36 months", " 60 months">>>>,
    <<"int_rate", <<500, 1237, 2000, 2500>>>>,
    <<"installment", <<50, 775, 1499>>>>,
    <<"grade", GRADES>>,
    <<"emp_length", <<"< 1 year", "1 year", "2 years", "3 years",
                      "5 years", "10+ years">>>>,
    <<"home_ownership", <<"RENT", "OWN", "MORTGAGE">>>>,
    <<"annual_inc", <<30000, 115000, 199999>>>>,
    <<"verification_status", <<"Verified", "Not Verified", "Source Verified">>>>,
    <<"loan_status", LOAN_STATUSES>>,
    <<"purpose", <<"debt_consolidation", "credit_card", "home_improvement",
                   "major_purchase", "medical", "car", "other">>>>,
    <<"dti", <<0, 1500, 3000, 3001, 4000>>>>,
    <<"delinq_2yrs", <<0, 2, 4>>>>,
    <<"fico_range_low", <<600, 649, 650, 839>>>>,
    <<"fico_range_high", <<605, 700, 849>>>>,
    <<"open_acc", <<2, 15, 29>>>>,
    <<"pub_rec", <<0, 1, 2>>>>,
    <<"revol_bal", <<0, 25000, 49999>>>>,
    <<"revol_util", <<0, 500, 1000>>>>,
    <<"total_acc", <<5, 27, 49>>>>,
    <<"total_pymnt", <<0, 25000, 49999>>>> >>

NumpyNames == {NumpyColumns[i][1] : i \in 1..Len(NumpyColumns)}

SampleColumns == {"id", "member_id", "issue_d"} \cup NumpyNames

DayOffsets == <<0, 365, 730, 1460>>

\* f'{i:08d}': the decimal digits of i, zero-padded on the left to width w
ZeroPad(i, w) == [k \in 1..w |-> (i \div (10 ^ (w - k))) % 10]

\* the numpy columns, each of n values, drawn one column after another:
\* column i starts where column i - 1 stopped
DrawColumnsOf(specs, s, n) ==
    [state |-> [s EXCEPT !.pos = @ + n * Len(specs)],
     cols |-> [i \in 1..Len(specs) |->
                DrawN([s EXCEPT !.pos = @ + n * (i - 1)], n, specs[i][2]).out]]

DrawColumns(s, n) == DrawColumnsOf(NumpyColumns, s, n)

ColumnIndex(name) == CHOOSE i \in 1..Len(NumpyColumns) : NumpyColumns[i][1] = name

\* pd.DataFrame(data): one row per index, one field per key of `data`
BuildFrame(n, ds, cols) ==
    [cols |-> SampleColumns,
     rows |-> [i \in 1..n |->
        [c \in SampleColumns |->
            CASE c = "id" -> <<"LOAN_", ZeroPad(i - 1, 8)>>
              [] c = "member_id" -> <<"MEM_", ZeroPad(i - 1, 7)>>
              [] c = "issue_d" -> [kind |-> "datetime", day |-> ds[i]]
              [] OTHER -> cols[ColumnIndex(c)][i]]]]

RowIndices(t) == 1..Len(t.rows)

\* df.loc[mask, col] = vals: the rows of the index set `mask` take their value
UpdateWhere(t, mask, col, vals) ==
    [t EXCEPT !.rows = [i \in RowIndices(t) |->
        IF i \in mask THEN [t.rows[i] EXCEPT ![col] = vals[i]]
        ELSE t.rows[i]]]

LowGrade(r) == r["grade"] \in {"F", "G"}

LowFico(r) == r["fico_range_low"] < 650

\* the mask taking a dti of exactly 30 too
HighDti_AtLeast(r) == r["dti"] >= 3000

HighDti(r) == r["dti"] > 3000

\* the low-grade rule adding 3 like the low-FICO rule
AddFive_Three(x) == x + 300

\* the low-grade rule multiplying: *= 5 for += 5
AddFive_Times(x) == x * 5

AddFive(x) == x + 500

\* the low-FICO rule raising the rate by 3 percent of itself
AddThree_Percent(x) == x + (3 * x) \div 100

AddThree(x) == x + 300

\* df.loc[df['grade'].isin(['F', 'G']), 'int_rate'] += 5
RuleLowGrade(t) ==
    UpdateWhere(t, {i \in RowIndices(t) : LowGrade(t.rows[i])}, "int_rate",
                [i \in RowIndices(t) |-> AddFive(t.rows[i]["int_rate"])])

\* the rule keeping the rows of its mask only
RuleLowFico_Subset(t) ==
    LET sel == SelectSeq(t.rows, LowFico)
    IN [t EXCEPT !.rows = [i \in 1..Len(sel) |->
            [sel[i] EXCEPT !["int_rate"] = AddThree(sel[i]["int_rate"])]]]

\* df.loc[df['fico_range_low'] < 650, 'int_rate'] += 3
RuleLowFico(t) ==
    UpdateWhere(t, {i \in RowIndices(t) : LowFico(t.rows[i])}, "int_rate",
                [i \in RowIndices(t) |-> AddThree(t.rows[i]["int_rate"])])

\* position of row i among the selected rows
RankIn(S, i) == Cardinality({j \in S : j <= i})

\* df.loc[df['dti'] > 30, 'loan_status'] = np.random.choice([...], count, p=[...])
RedrawStatus(t, s) ==
    LET S == {i \in RowIndices(t) : HighDti(t.rows[i])}
        d == DrawN(s, Cardinality(S), REDRAW_STATUSES)
    IN [state |-> d.state,
        table |-> [t EXCEPT !.rows = [i \in 1..Len(t.rows) |->
            IF i \in S THEN [t.rows[i] EXCEPT !["loan_status"] = d.out[RankIn(S, i)]]
            ELSE t.rows[i]]]]

\* the assignment left out
SetFicoHigh_Skipped(t) == t

\* df['fico_range_high'] = df['fico_range_low'] + 5
SetFicoHigh(t) ==
    [t EXCEPT !.rows = [i \in 1..Len(t.rows) |->
        [t.rows[i] EXCEPT !["fico_range_high"] = t.rows[i]["fico_range_low"] + 5]]]

NoTable == [cols |-> {}, rows |-> <<>>]

----------------------------------------------------------------------------
(* Data files.  A CSV file holds text: to_csv writes a datetime as its     *)
(* date text, and read_csv gives that text back as a string.               *)

\* a path: whether a file is there, and the table it holds
NoFile == [exists |-> FALSE, table |-> [cols |-> {}, rows |-> <<>>]]

File(t) == [exists |-> TRUE, table |-> t]

CsvCell(c, v) == IF c = "issue_d" THEN [kind |-> "text", day |-> v.day] ELSE v

\* df.to_csv(path, index=False)
WriteCsv(t) ==
    [t EXCEPT !.rows = [i \in 1..Len(t.rows) |->
        [c \in t.cols |-> CsvCell(c, t.rows[i][c])]]]

\* pd.read_csv(path) of a file that exists
ReadCsv(f) == f.table

\* generate_sample_loans(n) from seeding to return, as one function
GenerateSampleLoans(n) ==
    LET py == DrawN(SeedState(SEED), n, DayOffsets)
        np == DrawColumns(SeedState(SEED), n)
        t0 == BuildFrame(n, py.out, np.cols)
    IN SetFicoHigh(RedrawStatus(RuleLowFico(RuleLowGrade(t0)), np.state).table)

----------------------------------------------------------------------------
(* The default flag: df['is_default'] = df['loan_status'].isin(L).astype(int) *)

IsIn(v, statuses) == IF v \in Range(statuses) THEN 1 ELSE 0

\* df[col] = vals: the column is added, or overwritten when it exists
SetColumn(t, col, vals) ==
    [cols |-> t.cols \cup {col},
     rows |-> [i \in 1..Len(t.rows) |->
        [c \in t.cols \cup {col} |->
            IF c = col THEN vals[i] ELSE t.rows[i][c]]]]

\* the rule also relabelling loan_status as Bad or Good
DeriveDefaultFlag_Relabel(t, statuses) ==
    LET flag == [i \in 1..Len(t.rows) |-> IsIn(t.rows[i]["loan_status"], statuses)]
        label == [i \in 1..Len(t.rows) |-> IF flag[i] = 1 THEN "Bad" ELSE "Good"]
    IN SetColumn(SetColumn(t, "is_default", flag), "loan_status", label)

DeriveDefaultFlag(t, statuses) ==
    LET flag == [i \in 1..Len(t.rows) |-> IsIn(t.rows[i]["loan_status"], statuses)]
    IN SetColumn(t, "is_default", flag)

\* exploration_full.py, Default Analysis cell
EXPLORATION_default_statuses == <<"Charged Off", "Default", "Late (31-120 days)">>

\* create_risk_monitoring_dashboard
RISK_default_statuses == <<"Charged Off", "Default", "Late (31-120 days)">>

\* create_cohort_analysis_dashboard
COHORT_default_statuses == <<"Charged Off", "Default", "Late (31-120 days)">>

\* generate_synthetic_data
SYNTHETIC_default_statuses == <<"Charged Off", "Late">>

----------------------------------------------------------------------------
(* dashboards/app.py: generate_synthetic_data *)

SYNTHETIC_STATUSES == <<"Fully Paid", "Current", "Charged Off", "Late">>

SyntheticDraws == <<
    <<"loan_amnt", <<1000, 20000, 39999>>>>,
    <<"int_rate", <<500, 1500, 2499>>>>,
    <<"annual_inc", <<20000, 110000, 199999>>>>,
    <<"dti", <<0, 2000, 3999>>>>,
    <<"fico_score", <<600, 670, 671, 740, 800, 801, 849>>>>,
    <<"loan_status", SYNTHETIC_STATUSES>>,
    <<"loan_grade", GRADES>>,
    <<"credit_utilization", <<0, 5000, 9999>>>>,
    <<"risk_score", <<0, 1000, 2500, 2501, 5000, 7500, 7501, 9999>>>>,
    <<"issue_year", <<2015, 2016, 2017, 2018>>>> >>

SyntheticNames == {SyntheticDraws[i][1] : i \in 1..Len(SyntheticDraws)}

SyntheticIndex(name) ==
    CHOOSE i \in 1..Len(SyntheticDraws) : SyntheticDraws[i][1] = name

NaN == "NaN"

\* pd.cut(x, bins, labels): bin k is (bins[k], bins[k+1]]; outside every bin is NaN
Cut(x, bins, labels) ==
    LET K == {k \in 1..Len(labels) : bins[k] < x /\ x <= bins[k + 1]}
    IN IF K = {} THEN NaN ELSE labels[CHOOSE k \in K : TRUE]

RISK_BINS == <<0, 2500, 5000, 7500, 10000>>

RISK_LABELS == <<"Low Risk", "Medium Risk", "High Risk", "Very High Risk">>

FICO_CATEGORY_BINS == <<0, 580, 670, 740, 800, 850>>

FICO_CATEGORY_LABELS == <<"Poor", "Fair", "Good", "Very Good", "Excellent">>

RiskCategory(r) == Cut(r["risk_score"], RISK_BINS, RISK_LABELS)

FicoCategory(r) == Cut(r["fico_score"], FICO_CATEGORY_BINS, FICO_CATEGORY_LABELS)

\* generate_synthetic_data(n_samples): the table, and numpy's state after it
GenerateSyntheticData(n) ==
    LET d == DrawColumnsOf(SyntheticDraws, SeedState(SEED), n)
        t0 == [cols |-> SyntheticNames,
               rows |-> [i \in 1..n |->
                   [c \in SyntheticNames |-> d.cols[SyntheticIndex(c)][i]]]]
        t1 == DeriveDefaultFlag(t0, SYNTHETIC_default_statuses)
        t2 == SetColumn(t1, "risk_category", [i \in 1..n |-> RiskCategory(t1.rows[i])])
    IN [state |-> d.state,
        table |-> SetColumn(t2, "fico_category", [i \in 1..n |-> FicoCategory(t2.rows[i])])]

\* a table without some of its columns
DropColumns(t, D) ==
    [cols |-> t.cols \ D,
     rows |-> [i \in 1..Len(t.rows) |-> [c \in t.cols \ D |-> t.rows[i][c]]]]

----------------------------------------------------------------------------
(* dashboards/app.py: the sidebar and the six pages as the column uses     *)
(* they make, in statement order.  A statement runs when every column of   *)
(* its presence checks (`guard`) is in df.columns; it then reads `needs`   *)
(* and raises when one of them is missing.  `else` is what the else branch *)
(* of the presence check displays ("" when there is none).                 *)

Stmt(g, n, e) == [guard |-> g, needs |-> n, else |-> e]

SidebarProgram == <<
    Stmt({}, {"loan_amnt"}, ""),
    Stmt({"is_default"}, {"is_default"}, "") >>

ExecutiveSummaryProgram == <<
    Stmt({}, {"loan_amnt"}, ""),
    Stmt({"is_default"}, {"is_default"}, "NPL Ratio N/A"),
    Stmt({}, {"loan_grade", "loan_amnt"}, ""),
    Stmt({"issue_year"}, {"issue_year"}, "Year data not available"),
    Stmt({}, {"loan_status"}, ""),
    Stmt({}, {"int_rate"}, "") >>

RiskMonitoringProgram == <<
    Stmt({"risk_score"}, {"risk_score"}, "Avg Risk Score N/A"),
    Stmt({"fico_score"}, {"fico_score"}, "Avg FICO Score N/A"),
    Stmt({"dti"}, {"dti"}, "Avg DTI Ratio N/A"),
    Stmt({"credit_utilization"}, {"credit_utilization"}, "Avg Credit Util N/A"),
    Stmt({"is_default"}, {"loan_grade", "is_default", "loan_amnt"},
         "Default data not available"),
    Stmt({"risk_score"}, {"risk_score"}, "Risk score not available"),
    Stmt({"risk_category"}, {"risk_category"}, ""),
    Stmt({"risk_category", "is_default"}, {"risk_category", "is_default"}, "") >>

CustomerSegmentsProgram == <<
    Stmt({"risk_category"}, {"risk_category"},
         "Segment data not available. Showing all customers."),
    Stmt({}, {"loan_amnt"}, ""),
    Stmt({"fico_score"}, {"fico_score"}, "Avg FICO N/A"),
    Stmt({"is_default"}, {"is_default"}, "Default Rate N/A"),
    Stmt({}, {"annual_inc"}, ""),
    Stmt({"fico_score"}, {"fico_score"}, "FICO data not available"),
    Stmt({"risk_category"}, {"risk_category", "loan_amnt", "is_default", "fico_score"}, "") >>

CohortAnalysisProgram == <<
    Stmt({"issue_year"}, {"issue_year", "loan_amnt"},
         "Cohort data (issue_year) not available in dataset"),
    Stmt({"issue_year", "is_default"}, {"issue_year", "is_default"}, ""),
    Stmt({"issue_year"}, {"issue_year", "loan_amnt"}, ""),
    Stmt({"issue_year", "is_default"}, {"issue_year", "is_default"}, ""),
    Stmt({"issue_year"}, {"issue_year", "loan_amnt", "is_default", "int_rate"}, "") >>

ModelPerformanceProgram == <<>>

DataExplorerProgram == <<
    Stmt({}, {"loan_grade"}, ""),
    Stmt({"issue_year"}, {"issue_year"}, ""),
    Stmt({}, {"loan_status"}, ""),
    Stmt({}, {"loan_grade", "loan_status"}, "") >>

Pages == {"Executive Summary", "Risk Monitoring", "Customer Segments",
          "Cohort Analysis", "Model Performance", "Data Explorer"}

PageProgram(page) ==
    CASE page = "Executive Summary" -> ExecutiveSummaryProgram
      [] page = "Risk Monitoring" -> RiskMonitoringProgram
      [] page = "Customer Segments" -> CustomerSegmentsProgram
      [] page = "Cohort Analysis" -> CohortAnalysisProgram
      [] page = "Model Performance" -> ModelPerformanceProgram
      [] page = "Data Explorer" -> DataExplorerProgram

\* `if col in df.columns:` for every column of the statement's checks
Executes(st, cols) == st.guard \subseteq cols

\* running a program against a table with columns `cols`: the statements run
\* in order up to the first that reads a missing column; `reads` are the
\* columns read without a presence check of their own
RunProgram(prog, cols) ==
    LET Failing == {i \in 1..Len(prog) :
                        Executes(prog[i], cols) /\ ~(prog[i].needs \subseteq cols)}
        stop == IF Failing = {} THEN Len(prog) + 1
                ELSE CHOOSE i \in Failing : \A j \in Failing : i <= j
        Reached == {i \in 1..Len(prog) : i <= stop}
    IN [error |-> IF Failing = {} THEN "none" ELSE "KeyError",
        missing |-> IF Failing = {} THEN {} ELSE prog[stop].needs \ cols,
        reads |-> UNION {prog[i].needs \ prog[i].guard :
                            i \in {j \in Reached : Executes(prog[j], cols)}},
        placeholders |-> {prog[i].else : i \in {j \in Reached :
                              ~Executes(prog[j], cols) /\ prog[j].else # ""}}]

\* df[col].unique()
Unique(t, col) == {t.rows[i][col] : i \in 1..Len(t.rows)}

\* df[mask]: the rows whose index is in `mask`, in order
Filter(t, mask) ==
    LET InMask(i) == i \in mask
        kept == SelectSeq([i \in 1..Len(t.rows) |-> i], InMask)
    IN [t EXCEPT !.rows = [k \in 1..Len(kept) |-> t.rows[kept[k]]]]

\* the grade test negated
GradeSelected_Negated(r, grade_filter) == r["loan_grade"] \notin grade_filter

\* df['loan_grade'].isin(grade_filter)
GradeSelected(r, grade_filter) == r["loan_grade"] \in grade_filter

\* Data Explorer, "Apply filters": year_filter is None when the table has no
\* issue_year column, and an empty year selection is falsy
ApplyFilters(t, grade_filter, year_filter, status_filter) ==
    LET f1 == Filter(t, {i \in 1..Len(t.rows) :
                    /\ GradeSelected(t.rows[i], grade_filter)
                    /\ t.rows[i]["loan_status"] \in status_filter})
    IN IF year_filter # {} /\ "issue_year" \in t.cols
       THEN Filter(f1, {i \in 1..Len(f1.rows) : f1.rows[i]["issue_year"] \in year_filter})
       ELSE f1

\* the count running on from the first render of the process
ShownCount_Running(filtered_df, t) == Len(filtered_df.rows) + firstRender.view.shown

\* f"**Showing {len(filtered_df):,} of {len(df):,} loans**"
ShownCount(filtered_df, t) == Len(filtered_df.rows)

\* the selections of a multi-select the model goes through: up to MaxSelected
\* options ticked, or all of them (the default)
Selections(options) ==
    {sel \in SUBSET options : Cardinality(sel) <= MaxSelected \/ sel = options}

HEAD_ROWS == 100

\* df.head(k)
HeadRows(t, k) ==
    [t EXCEPT !.rows = SubSeq(t.rows, 1, IF Len(t.rows) < k THEN Len(t.rows) ELSE k)]

\* the download button handed the first rows only
ExportedFrame_Head(filtered_df) == HeadRows(filtered_df, HEAD_ROWS)

\* the DataFrame whose to_csv text the download button is given
ExportedFrame(filtered_df) == filtered_df

NoView == [page |-> "", error |-> "none", missing |-> {}, placeholders |-> {},
           grade_filter |-> {}, year_filter |-> {}, status_filter |-> {},
           selected_segment |-> "",
           filtered |-> NoTable, shown |-> 0, total |-> 0,
           displayed |-> NoTable, csv |-> NoTable]

\* no record is kept of the renders
NotTracking == [on |-> FALSE, view |-> NoView, renders |-> 0]

\* the renders are recorded, none has happened
Tracking == [on |-> TRUE, view |-> NoView, renders |-> 0]

\* the record after one more render producing v
Rendered(rec, v) ==
    IF ~rec.on THEN rec
    ELSE IF rec.renders = 0 THEN [rec EXCEPT !.view = v, !.renders = 1]
    ELSE [rec EXCEPT !.renders = 2]

----------------------------------------------------------------------------
(* config/config.py.  A path is the sequence of its components, a text of  *)
(* the environment the sequence of its characters.                         *)

\* an environment variable that is not set
NotSet == [set |-> FALSE, text |-> <<>>]

\* an environment variable set to a text
EnvText(chars) == [set |-> TRUE, text |-> chars]

\* os.getenv(name, default)
GetEnv(v, default) == IF v.set THEN v.text ELSE default

DIGITS == <<"0", "1", "2", "3", "4", "5", "6", "7", "8", "9">>

\* whether int(text) succeeds: the texts of the model are digits or letters
IsDecimal(text) ==
    /\ Len(text) > 0
    /\ \A k \in 1..Len(text) : text[k] \in Range(DIGITS)

\* int(text) of a decimal text
RECURSIVE IntOf(_)
IntOf(text) ==
    IF text = <<>> THEN 0
    ELSE 10 * IntOf(SubSeq(text, 1, Len(text) - 1))
         + (CHOOSE d \in 1..10 : DIGITS[d] = text[Len(text)]) - 1

\* the default of os.getenv("RANDOM_SEED", "42")
RANDOM_SEED_DEFAULT == <<"4", "2">>

\* DATA_PATH / name, for the checkout at `root`
DataDir(root, name) == root \o <<"data", name>>

DataDirNames == {"raw", "interim", "processed", "sample", "external"}

\* the module before its import
NotLoaded == [state |-> "none", PROJECT_ROOT |-> <<>>, RANDOM_SEED |-> 0,
              SAMPLE_RANDOM_STATE |-> 0, made |-> {}]

\* the module body, top to bottom: the paths, the mkdir loop, then
\* RANDOM_SEED = int(os.getenv("RANDOM_SEED", "42")), which raises ValueError
\* for a text that is no number, and SAMPLE_RANDOM_STATE = RANDOM_SEED
LoadConfig(e) ==
    LET text == GetEnv(e.RANDOM_SEED, RANDOM_SEED_DEFAULT)
        dirs == {DataDir(e.root, name) : name \in DataDirNames}
    IN IF IsDecimal(text)
       THEN [state |-> "loaded", PROJECT_ROOT |-> e.root, RANDOM_SEED |-> IntOf(text),
             SAMPLE_RANDOM_STATE |-> IntOf(text), made |-> dirs]
       ELSE [state |-> "failed", PROJECT_ROOT |-> e.root, RANDOM_SEED |-> 0,
             SAMPLE_RANDOM_STATE |-> 0, made |-> dirs]

RAW_DATA_PATH == DataDir(config.PROJECT_ROOT, "raw")

INTERIM_DATA_PATH == DataDir(config.PROJECT_ROOT, "interim")

PROCESSED_DATA_PATH == DataDir(config.PROJECT_ROOT, "processed")

SAMPLE_DATA_PATH == DataDir(config.PROJECT_ROOT, "sample")

EXTERNAL_DATA_PATH == DataDir(config.PROJECT_ROOT, "external")

\* the dict of get_data_path
data_type_map ==
    [t \in DataDirNames |->
        CASE t = "raw" -> RAW_DATA_PATH
          [] t = "interim" -> INTERIM_DATA_PATH
          [] t = "processed" -> PROCESSED_DATA_PATH
          [] t = "sample" -> SAMPLE_DATA_PATH
          [] t = "external" -> EXTERNAL_DATA_PATH]

\* the lookup falling back to the data directory itself
BasePath_DataRoot(data_type) ==
    IF data_type \in DOMAIN data_type_map THEN data_type_map[data_type]
    ELSE config.PROJECT_ROOT \o <<"data">>

\* data_type_map.get(data_type, RAW_DATA_PATH)
BasePath(data_type) ==
    IF data_type \in DOMAIN data_type_map THEN data_type_map[data_type]
    ELSE RAW_DATA_PATH

\* base / filename: an absolute right-hand side replaces the left-hand one
JoinPath(base, filename) ==
    IF filename # <<>> /\ filename[1] = "/" THEN filename ELSE base \o filename

get_data_path(filename, data_type) == JoinPath(BasePath(data_type), filename)

NoCall == [called |-> FALSE, filename |-> <<>>, data_type |-> "", path |-> <<>>]

\* no configuration is imported, no script output is followed
CfgOff ==
    /\ env = [RANDOM_SEED |-> NotSet, root |-> <<>>]
    /\ config = NotLoaded
    /\ writes = <<>>
    /\ data_path = NoCall

----------------------------------------------------------------------------
(* generate_sample_loans, statement by statement *)

\* no consumer script runs
ConsOff ==
    /\ consumer = "none"
    /\ processedFile = NoFile
    /\ sampleFile = NoFile
    /\ cpc = "off"
    /\ cdf = NoTable
    /\ cache = NoFile
    /\ attempts = <<>>
    /\ messages = <<>>
    /\ view = NoView
    /\ reads = {}
    /\ derived = {}
    /\ errorKind = "none"
    /\ derivations = 0
    /\ firstDerived = NoTable
    /\ fsChanges = 0
    /\ dashboardsDir = FALSE
    /\ images = {}
    /\ firstRender = NotTracking

GenInit ==
    /\ ConsOff
    /\ CfgOff
    /\ mt \in 1..MaxGens
    /\ npState \in [key : 0..MaxInitKey, pos : {0}]
    /\ pyState \in [key : 0..MaxInitKey, pos : {0}]
    /\ gpc = "idle"
    /\ n_records = 0
    /\ dates = <<>>
    /\ df = NoTable
    /\ sampled = NoTable
    /\ preRedraw = NoTable
    /\ returned = <<>>
    /\ npAtCall = npState
    /\ pyAtCall = pyState
    /\ calls = 0
    /\ draws = 0

\* some other code of the process draws from the random sources
OtherDraw ==
    /\ gpc = "idle"
    /\ draws < MaxDraws
    /\ draws' = draws + 1
    /\ \E a, b \in 0..1 :
        /\ a + b > 0
        /\ npState' = IF a = 1 THEN NextState(npState) ELSE npState
        /\ pyState' = IF b = 1 THEN NextState(pyState) ELSE pyState
    /\ UNCHANGED <<cfgVars, consVars, mt, gpc, n_records, dates, df, sampled, preRedraw, returned, npAtCall, pyAtCall, calls>>

Call ==
    /\ gpc = "idle"
    /\ calls < MaxCalls
    /\ \E n \in 0..MaxRecords : n_records' = n
    /\ calls' = calls + 1
    /\ gpc' = "seed"
    /\ dates' = <<>>
    /\ df' = NoTable
    /\ sampled' = NoTable
    /\ preRedraw' = NoTable
    /\ npAtCall' = npState
    /\ pyAtCall' = pyState
    /\ UNCHANGED <<cfgVars, consVars, mt, npState, pyState, returned, draws>>

\* numpy's random source not re-seeded
SeedNumpy_Kept(s) == s

\* numpy seeded from the configuration's SAMPLE_RANDOM_STATE
SeedNumpy_FromConfig(s) == SeedState(config.SAMPLE_RANDOM_STATE)

\* np.random.seed(42); random.seed(42)
SeedNumpy(s) == SeedState(SEED)

SeedPython(s) == SeedState(SEED)

Seed ==
    /\ gpc = "seed"
    /\ npState' = SeedNumpy(npState)
    /\ pyState' = SeedPython(pyState)
    /\ gpc' = "dates"
    /\ UNCHANGED <<cfgVars, consVars, mt, n_records, dates, df, sampled, preRedraw, returned, npAtCall, pyAtCall, calls, draws>>

\* dates = [start_date + timedelta(days=random.randint(0, 1460)) for _ in range(n_records)]
Dates ==
    /\ gpc = "dates"
    /\ LET d == DrawN(pyState, n_records, DayOffsets)
       IN /\ dates' = d.out
          /\ pyState' = d.state
    /\ gpc' = "columns"
    /\ UNCHANGED <<cfgVars, consVars, mt, npState, n_records, df, sampled, preRedraw, returned, npAtCall, pyAtCall, calls, draws>>

\* data = {...}; df = pd.DataFrame(data)
Columns ==
    /\ gpc = "columns"
    /\ LET d == DrawColumns(npState, n_records)
       IN /\ df' = BuildFrame(n_records, dates, d.cols)
          /\ sampled' = df'
          /\ npState' = d.state
    /\ gpc' = "rule_grade"
    /\ UNCHANGED <<cfgVars, consVars, mt, pyState, n_records, dates, preRedraw, returned, npAtCall, pyAtCall, calls, draws>>

GradeRule ==
    /\ gpc = "rule_grade"
    /\ df' = RuleLowGrade(df)
    /\ gpc' = "rule_fico"
    /\ UNCHANGED <<cfgVars, consVars, mt, npState, pyState, n_records, dates, sampled, preRedraw,
                   returned, npAtCall, pyAtCall, calls, draws>>

FicoRule ==
    /\ gpc = "rule_fico"
    /\ df' = RuleLowFico(df)
    /\ gpc' = "redraw"
    /\ UNCHANGED <<cfgVars, consVars, mt, npState, pyState, n_records, dates, sampled, preRedraw,
                   returned, npAtCall, pyAtCall, calls, draws>>

Redraw ==
    /\ gpc = "redraw"
    /\ LET r == RedrawStatus(df, npState)
       IN /\ df' = r.table
          /\ npState' = r.state
    /\ preRedraw' = df
    /\ gpc' = "fico_high"
    /\ UNCHANGED <<cfgVars, consVars, mt, pyState, n_records, dates, sampled, returned, npAtCall, pyAtCall, calls, draws>>

FicoHigh ==
    /\ gpc = "fico_high"
    /\ df' = SetFicoHigh(df)
    /\ gpc' = "return"
    /\ UNCHANGED <<cfgVars, consVars, mt, npState, pyState, n_records, dates, sampled, preRedraw,
                   returned, npAtCall, pyAtCall, calls, draws>>

\* the FICO bounds clipped to 840 on the way out
Return_Clipped ==
    /\ gpc = "return"
    /\ returned' = Append(returned,
            [n |-> n_records, np |-> npAtCall, py |-> pyAtCall,
             table |-> UpdateWhere(df, RowIndices(df), "fico_range_high",
                          [i \in RowIndices(df) |->
                              IF df.rows[i]["fico_range_high"] > 840 THEN 840
                              ELSE df.rows[i]["fico_range_high"]])])
    /\ gpc' = "idle"
    /\ UNCHANGED <<cfgVars, consVars, mt, npState, pyState, n_records, dates, df, sampled, preRedraw,
                   npAtCall, pyAtCall, calls, draws>>

\* return df
Return ==
    /\ gpc = "return"
    /\ returned' = Append(returned, [n |-> n_records, np |-> npAtCall, py |-> pyAtCall,
                                      table |-> df])
    /\ gpc' = "idle"
    /\ UNCHANGED <<cfgVars, consVars, mt, npState, pyState, n_records, dates, df, sampled, preRedraw,
                   npAtCall, pyAtCall, calls, draws>>

GenNext ==
    \/ OtherDraw
    \/ Call
    \/ Seed
    \/ Dates
    \/ Columns
    \/ GradeRule
    \/ FicoRule
    \/ Redraw
    \/ FicoHigh
    \/ Return

SpecGen == GenInit /\ [][GenNext]_vars

----------------------------------------------------------------------------
(* The consumers.  One behaviour runs one of the three scripts against the *)
(* two data files.                                                         *)

\* the generator script is not running
GenOff ==
    /\ pyState = [key |-> 0, pos |-> 0]
    /\ gpc = "off"
    /\ n_records = 0
    /\ dates = <<>>
    /\ df = NoTable
    /\ sampled = NoTable
    /\ preRedraw = NoTable
    /\ returned = <<>>
    /\ npAtCall = pyState
    /\ pyAtCall = pyState
    /\ calls = 0
    /\ draws = 0

\* what the sample file can hold: a table the generator script wrote
SampleTables == {WriteCsv(GenerateSampleLoans(n)) : n \in 1..MaxRecords}

\* columns a feature-engineered file may come without
ProcessedDrops == {{}, {"is_default"}, {"issue_year"}, {"fico_score"},
                   {"risk_category", "fico_category"}}

\* what the processed file can hold: the dashboard's own schema, whole or with
\* columns missing, or the sample table with the default flag added
ProcessedTables ==
    {DropColumns(GenerateSyntheticData(n).table, D) :
        n \in 1..MaxSamples, D \in ProcessedDrops}
    \cup {DeriveDefaultFlag(t, DEFAULT_STATUSES) : t \in SampleTables}

ConsInit ==
    /\ GenOff
    /\ CfgOff
    /\ mt \in 1..MaxGens
    /\ npState = [key |-> 0, pos |-> 0]
    /\ consumer \in {"dashboard", "exploration", "preview"}
    /\ processedFile \in {NoFile} \cup {File(t) : t \in ProcessedTables}
    /\ sampleFile \in {NoFile} \cup {File(t) : t \in SampleTables}
    /\ cpc = "idle"
    /\ cdf = NoTable
    /\ cache = NoFile
    /\ attempts = <<>>
    /\ messages = <<>>
    /\ view = NoView
    /\ reads = {}
    /\ derived = {}
    /\ errorKind = "none"
    /\ derivations = 0
    /\ firstDerived = NoTable
    /\ fsChanges = 0
    /\ dashboardsDir \in (IF consumer = "preview" THEN BOOLEAN ELSE {FALSE})
    /\ images = {}
    /\ firstRender = NotTracking

\* a data file is removed, or written by the script that produces it
FileChange ==
    /\ fsChanges < MaxFsChanges
    /\ fsChanges' = fsChanges + 1
    /\ \/ /\ processedFile # NoFile
          /\ processedFile' = NoFile
          /\ UNCHANGED sampleFile
       \/ /\ processedFile = NoFile
          /\ processedFile' = File(GenerateSyntheticData(MaxSamples).table)
          /\ UNCHANGED sampleFile
       \/ /\ sampleFile # NoFile
          /\ sampleFile' = NoFile
          /\ UNCHANGED processedFile
       \/ /\ sampleFile = NoFile
          /\ sampleFile' = File(WriteCsv(GenerateSampleLoans(MaxRecords)))
          /\ UNCHANGED processedFile
    /\ UNCHANGED <<mt, npState, genOnly, cfgVars, firstRender, consumer, cpc, cdf, cache, attempts, messages,
                   view, reads, derived, errorKind, derivations, firstDerived, dashboardsDir, images>>

----------------------------------------------------------------------------
(* dashboards/app.py: one run of the script per interaction *)

\* every run starting with an empty cache
DashRun_ClearCache ==
    /\ consumer = "dashboard"
    /\ cpc = "idle"
    /\ cpc' = "load"
    /\ cache' = NoFile
    /\ messages' = <<>>
    /\ view' = NoView
    /\ reads' = {}
    /\ errorKind' = "none"
    /\ UNCHANGED <<mt, npState, genOnly, cfgVars, firstRender, consumer, processedFile, sampleFile, cdf,
                   attempts, derived, derivations, firstDerived, fsChanges, dashboardsDir, images>>

\* the script starts (first visit, or a widget changed)
DashRun ==
    /\ consumer = "dashboard"
    /\ cpc = "idle"
    /\ cpc' = "load"
    /\ messages' = <<>>
    /\ view' = NoView
    /\ reads' = {}
    /\ errorKind' = "none"
    /\ UNCHANGED <<mt, npState, genOnly, cfgVars, firstRender, consumer, processedFile, sampleFile, cdf, cache,
                   attempts, derived, derivations, firstDerived, fsChanges, dashboardsDir, images>>

\* df = load_data() answered from st.cache_data
DashLoadCached ==
    /\ cpc = "load"
    /\ cache # NoFile
    /\ cdf' = cache.table
    /\ cpc' = "sidebar"
    /\ UNCHANGED <<mt, npState, genOnly, cfgVars, firstRender, consumer, processedFile, sampleFile, cache,
                   attempts, messages, view, reads, derived, errorKind, derivations,
                   firstDerived, fsChanges, dashboardsDir, images>>

\* where load_data goes on when the processed file is missing: to the sample
\* file skipped
AfterProcessedMissing_SkipSample == "synthetic"

\* where load_data goes on when the processed file is missing
AfterProcessedMissing == "try_sample"

\* where load_data goes on when the sample file is missing too
AfterSampleMissing == "synthetic"

\* try: df = pd.read_csv('../data/processed/loans_with_features.csv')
DashTryProcessed ==
    /\ cpc = "load"
    /\ cache = NoFile
    /\ attempts' = <<[source |-> "processed", file |-> processedFile]>>
    /\ IF processedFile # NoFile
       THEN /\ cdf' = ReadCsv(processedFile)
            /\ cache' = File(cdf')
            /\ cpc' = "sidebar"
       ELSE /\ cpc' = AfterProcessedMissing
            /\ UNCHANGED <<cdf, cache>>
    /\ UNCHANGED <<mt, npState, genOnly, cfgVars, firstRender, consumer, processedFile, sampleFile, messages,
                   view, reads, derived, errorKind, derivations, firstDerived, fsChanges, dashboardsDir, images>>

\* except FileNotFoundError: try: df = pd.read_csv('../data/sample/sample_loans_10k.csv')
DashTrySample ==
    /\ cpc = "try_sample"
    /\ attempts' = Append(attempts, [source |-> "sample", file |-> sampleFile])
    /\ IF sampleFile # NoFile
       THEN /\ cdf' = ReadCsv(sampleFile)
            /\ cache' = File(cdf')
            /\ messages' = Append(messages,
                   [kind |-> "warning", text |-> "Using sample data. Processed features not found."])
            /\ cpc' = "sidebar"
       ELSE /\ cpc' = AfterSampleMissing
            /\ UNCHANGED <<cdf, cache, messages>>
    /\ UNCHANGED <<mt, npState, genOnly, cfgVars, firstRender, consumer, processedFile, sampleFile, view, reads,
                   derived, errorKind, derivations, firstDerived, fsChanges, dashboardsDir, images>>

\* except FileNotFoundError: st.error(...); df = generate_synthetic_data()
DashSynthetic ==
    /\ cpc = "synthetic"
    /\ messages' = Append(messages,
           [kind |-> "error",
            text |-> "No data files found. Generating synthetic data for demonstration."])
    /\ LET g == GenerateSyntheticData(MaxSamples)
       IN /\ cdf' = g.table
          /\ npState' = g.state
          /\ attempts' = Append(attempts, [source |-> "synthetic", file |-> File(g.table)])
    /\ cache' = File(cdf')
    /\ derived' = {"is_default", "risk_category", "fico_category"}
    /\ cpc' = "sidebar"
    /\ UNCHANGED <<mt, genOnly, cfgVars, firstRender, consumer, processedFile, sampleFile, view, reads,
                   errorKind, derivations, firstDerived, fsChanges, dashboardsDir, images>>

\* the sidebar's quick stats
DashSidebar ==
    /\ cpc = "sidebar"
    /\ LET r == RunProgram(SidebarProgram, cdf.cols)
       IN /\ reads' = reads \cup r.reads
          /\ errorKind' = r.error
          /\ cpc' = IF r.error = "none" THEN "page" ELSE "idle"
          /\ view' = [NoView EXCEPT !.page = "sidebar", !.error = r.error,
                                    !.missing = r.missing]
    /\ UNCHANGED <<mt, npState, genOnly, cfgVars, firstRender, consumer, processedFile, sampleFile, cdf, cache,
                   attempts, messages, derived, derivations, firstDerived, fsChanges, dashboardsDir, images>>

\* df[df['risk_category'] == selected_segment]; a NaN category equals nothing
SegmentOf(t, selected_segment) ==
    IF selected_segment = "All Segments" THEN t
    ELSE Filter(t, {i \in 1..Len(t.rows) :
                    /\ selected_segment # NaN
                    /\ t.rows[i]["risk_category"] = selected_segment})

\* the branch of the selected page
DashRenderPage ==
    /\ cpc = "page"
    /\ \E page \in Pages :
        LET r == RunProgram(PageProgram(page), cdf.cols)
            base == [NoView EXCEPT !.page = page, !.error = r.error,
                                   !.missing = r.missing,
                                   !.placeholders = r.placeholders,
                                   !.total = Len(cdf.rows)]
        IN /\ reads' = reads \cup r.reads
           /\ errorKind' = r.error
           /\ CASE page = "Data Explorer" /\ r.error = "none" ->
                    \E grade_filter \in Selections(Unique(cdf, "loan_grade")),
                       status_filter \in Selections(Unique(cdf, "loan_status")),
                       year_filter \in (IF "issue_year" \in cdf.cols
                                        THEN Selections(Unique(cdf, "issue_year"))
                                        ELSE {{}}) :
                        LET filtered_df == ApplyFilters(cdf, grade_filter, year_filter,
                                                        status_filter)
                        IN view' = [base EXCEPT !.grade_filter = grade_filter,
                                                !.year_filter = year_filter,
                                                !.status_filter = status_filter,
                                                !.filtered = filtered_df,
                                                !.shown = ShownCount(filtered_df, cdf),
                                                !.displayed = HeadRows(filtered_df, HEAD_ROWS),
                                                !.csv = WriteCsv(ExportedFrame(filtered_df))]
                [] page = "Customer Segments" /\ "risk_category" \in cdf.cols ->
                    \E selected_segment \in {"All Segments"} \cup Unique(cdf, "risk_category") :
                        LET segment_df == SegmentOf(cdf, selected_segment)
                        IN view' = [base EXCEPT !.selected_segment = selected_segment,
                                                !.filtered = segment_df,
                                                !.shown = Len(segment_df.rows)]
                [] OTHER -> view' = base
    /\ firstRender' = Rendered(firstRender, view')
    /\ cpc' = "idle"
    /\ UNCHANGED <<mt, npState, genOnly, cfgVars, consumer, processedFile, sampleFile, cdf, cache,
                   attempts, messages, derived, derivations, firstDerived, fsChanges, dashboardsDir, images>>

----------------------------------------------------------------------------
(* notebooks/exploration_full.py, cell by cell *)

\* an error raised while computing or plotting, other than a missing file or
\* a missing column ("none": no such error)
Faults == {"none", "ValueError"}

\* the columns the cells after the Default Analysis cell read
ExplorationProgram == <<
    Stmt({}, {"is_default"}, ""),
    Stmt({}, {"grade", "is_default"}, ""),
    Stmt({}, {"loan_amnt", "is_default"}, ""),
    Stmt({}, {"int_rate", "is_default", "grade"}, ""),
    Stmt({}, {"fico_range_low", "is_default"}, ""),
    Stmt({}, {"dti", "is_default"}, ""),
    Stmt({}, {"loan_amnt", "int_rate", "fico_range_low", "dti", "annual_inc"}, ""),
    Stmt({}, {"loan_amnt", "int_rate", "annual_inc", "dti", "fico_range_low",
              "revol_util", "open_acc", "total_acc", "is_default"}, ""),
    Stmt({}, {"purpose", "is_default"}, "") >>

\* df = pd.read_csv(data_path): no handler around it
ExpLoad ==
    /\ consumer = "exploration"
    /\ cpc = "idle"
    /\ IF sampleFile # NoFile
       THEN /\ cdf' = ReadCsv(sampleFile)
            /\ cpc' = "derive"
            /\ UNCHANGED errorKind
       ELSE /\ errorKind' = "FileNotFoundError"
            /\ cpc' = "crashed"
            /\ UNCHANGED cdf
    /\ UNCHANGED <<mt, npState, genOnly, cfgVars, firstRender, consumer, processedFile, sampleFile, cache,
                   attempts, messages, view, reads, derived, derivations, firstDerived,
                   fsChanges, dashboardsDir, images>>

\* the cell saving the DataFrame with its new column over the sample file
ExpDerive_WriteBack ==
    /\ consumer = "exploration"
    /\ cpc = "derive"
    /\ cdf' = DeriveDefaultFlag(cdf, EXPLORATION_default_statuses)
    /\ sampleFile' = File(WriteCsv(cdf'))
    /\ firstDerived' = cdf'
    /\ derivations' = 1
    /\ reads' = reads \cup {"loan_status"}
    /\ derived' = derived \cup {"is_default"}
    /\ cpc' = "analysis"
    /\ UNCHANGED <<mt, npState, genOnly, cfgVars, firstRender, consumer, processedFile, cache,
                   attempts, messages, view, errorKind, fsChanges, dashboardsDir, images>>

\* status_counts = df['loan_status'].value_counts() ...
\* df['is_default'] = df['loan_status'].isin(default_statuses).astype(int)
ExpDerive ==
    /\ consumer = "exploration"
    /\ cpc = "derive"
    /\ cdf' = DeriveDefaultFlag(cdf, EXPLORATION_default_statuses)
    /\ firstDerived' = cdf'
    /\ derivations' = 1
    /\ reads' = reads \cup {"loan_status"}
    /\ derived' = derived \cup {"is_default"}
    /\ cpc' = "analysis"
    /\ UNCHANGED <<mt, npState, genOnly, cfgVars, firstRender, consumer, processedFile, sampleFile, cache,
                   attempts, messages, view, errorKind, fsChanges, dashboardsDir, images>>

\* the Default Analysis cell run once more on the DataFrame it already changed
ExpDeriveAgain ==
    /\ consumer = "exploration"
    /\ cpc = "analysis"
    /\ derivations < MaxDerivations
    /\ cdf' = DeriveDefaultFlag(cdf, EXPLORATION_default_statuses)
    /\ derivations' = derivations + 1
    /\ UNCHANGED <<mt, npState, genOnly, cfgVars, firstRender, consumer, processedFile, sampleFile, cpc, cache,
                   attempts, messages, view, reads, derived, errorKind, firstDerived,
                   fsChanges, dashboardsDir, images>>

\* the cells from Grade Distribution to Key Findings: no cell has a handler
ExpAnalysis ==
    /\ consumer = "exploration"
    /\ cpc = "analysis"
    /\ \E fault \in Faults :
        LET r == RunProgram(ExplorationProgram, cdf.cols)
            err == IF r.error # "none" THEN r.error ELSE fault
        IN /\ reads' = reads \cup r.reads
           /\ errorKind' = err
           /\ cpc' = IF err = "none" THEN "done" ELSE "crashed"
    /\ UNCHANGED <<mt, npState, genOnly, cfgVars, firstRender, consumer, processedFile, sampleFile, cdf, cache,
                   attempts, messages, view, derived, derivations, firstDerived,
                   fsChanges, dashboardsDir, images>>

----------------------------------------------------------------------------
(* scripts/create_dashboard_preview.py: __main__ runs both functions inside *)
(* one try block whose handler prints the error and a traceback            *)

RiskPreviewProgram == <<
    Stmt({}, {"is_default", "loan_amnt", "fico_range_low"}, ""),
    Stmt({}, {"grade", "is_default"}, ""),
    Stmt({}, {"loan_status"}, ""),
    Stmt({}, {"fico_range_low"}, ""),
    Stmt({}, {"loan_amnt", "grade"}, ""),
    Stmt({}, {"grade", "int_rate"}, ""),
    Stmt({}, {"dti"}, ""),
    Stmt({}, {"purpose"}, ""),
    Stmt({}, {"home_ownership", "is_default"}, "") >>

CohortPreviewProgram == <<
    Stmt({}, {"issue_month", "loan_amnt"}, ""),
    Stmt({}, {"issue_month", "is_default"}, ""),
    Stmt({}, {"issue_month", "loan_status"}, ""),
    Stmt({}, {"loan_status"}, "") >>

\* days from 2015-01-01 to the first day of each year of the window
YearStart(y) == CASE y = 2015 -> 0 [] y = 2016 -> 365 [] y = 2017 -> 731
                  [] y = 2018 -> 1096 [] OTHER -> 1461

YearOfDay(d) == CHOOSE y \in 2015..2018 : YearStart(y) <= d /\ d < YearStart(y + 1)

MonthLengths(y) == <<31, IF y = 2016 THEN 29 ELSE 28, 31, 30, 31, 30, 31, 31, 30, 31, 30, 31>>

RECURSIVE DaysBeforeMonth(_, _)
DaysBeforeMonth(y, m) ==
    IF m = 1 THEN 0 ELSE DaysBeforeMonth(y, m - 1) + MonthLengths(y)[m - 1]

\* pd.to_datetime(text).to_period('M')
ToPeriodM(v) ==
    LET y == YearOfDay(v.day)
        doy == v.day - YearStart(y)
        m == CHOOSE k \in 1..12 :
                DaysBeforeMonth(y, k) <= doy
                /\ doy < DaysBeforeMonth(y, k) + MonthLengths(y)[k]
    IN [kind |-> "period", year |-> y, month |-> m]

ToDatetime(v) == [kind |-> "datetime", day |-> v.day]

IssueDate(r) == ToDatetime(r["issue_d"])

IssueMonth(r) == ToPeriodM(r["issue_date"])

\* except Exception as e: print(f"Error: {e}"); traceback.print_exc()
PrintError == [kind |-> "print", text |-> "Error"]

\* each function called under a handler of its own: the cohort step starts
\* whatever happened to the first
PrevRisk_Continue ==
    /\ consumer = "preview"
    /\ cpc = "idle"
    /\ IF sampleFile = NoFile
       THEN /\ errorKind' = "FileNotFoundError"
            /\ messages' = Append(messages, PrintError)
            /\ cpc' = "cohort"
            /\ UNCHANGED <<cdf, reads, derived, dashboardsDir, images>>
       ELSE \E fault \in Faults :
            LET t == DeriveDefaultFlag(ReadCsv(sampleFile), RISK_default_statuses)
                r == RunProgram(RiskPreviewProgram, t.cols)
                err == IF r.error # "none" THEN r.error ELSE fault
            IN /\ cdf' = t
               /\ reads' = reads \cup {"loan_status"} \cup r.reads
               /\ derived' = derived \cup {"is_default"}
               /\ errorKind' = err
               /\ IF err = "none"
                  THEN /\ dashboardsDir' = TRUE
                       /\ images' = images \cup {"dashboards/risk_monitoring.png"}
                       /\ messages' = Append(messages, [kind |-> "print", text |-> "Created"])
                       /\ cpc' = "cohort"
                  ELSE /\ messages' = Append(messages, PrintError)
                       /\ cpc' = "cohort"
                       /\ UNCHANGED <<dashboardsDir, images>>
    /\ UNCHANGED <<mt, npState, genOnly, cfgVars, firstRender, consumer, processedFile, sampleFile, cache,
                   attempts, view, derivations, firstDerived, fsChanges>>

\* risk_path = create_risk_monitoring_dashboard()
PrevRisk ==
    /\ consumer = "preview"
    /\ cpc = "idle"
    /\ IF sampleFile = NoFile
       THEN /\ errorKind' = "FileNotFoundError"
            /\ messages' = Append(messages, PrintError)
            /\ cpc' = "done"
            /\ UNCHANGED <<cdf, reads, derived, dashboardsDir, images>>
       ELSE \E fault \in Faults :
            LET t == DeriveDefaultFlag(ReadCsv(sampleFile), RISK_default_statuses)
                r == RunProgram(RiskPreviewProgram, t.cols)
                err == IF r.error # "none" THEN r.error ELSE fault
            IN /\ cdf' = t
               /\ reads' = reads \cup {"loan_status"} \cup r.reads
               /\ derived' = derived \cup {"is_default"}
               /\ errorKind' = err
               /\ IF err = "none"
                  THEN /\ dashboardsDir' = TRUE
                       /\ images' = images \cup {"dashboards/risk_monitoring.png"}
                       /\ messages' = Append(messages, [kind |-> "print", text |-> "Created"])
                       /\ cpc' = "cohort"
                  ELSE /\ messages' = Append(messages, PrintError)
                       /\ cpc' = "done"
                       /\ UNCHANGED <<dashboardsDir, images>>
    /\ UNCHANGED <<mt, npState, genOnly, cfgVars, firstRender, consumer, processedFile, sampleFile, cache,
                   attempts, view, derivations, firstDerived, fsChanges>>

\* cohort_path = create_cohort_analysis_dashboard(), then the closing lines
PrevCohort ==
    /\ consumer = "preview"
    /\ cpc = "cohort"
    /\ IF sampleFile = NoFile
       THEN /\ errorKind' = "FileNotFoundError"
            /\ messages' = Append(messages, PrintError)
            /\ UNCHANGED <<cdf, reads, derived, images>>
       ELSE \E fault \in Faults :
            LET t0 == DeriveDefaultFlag(ReadCsv(sampleFile), COHORT_default_statuses)
                t1 == SetColumn(t0, "issue_date",
                                [i \in 1..Len(t0.rows) |-> IssueDate(t0.rows[i])])
                t == SetColumn(t1, "issue_month",
                               [i \in 1..Len(t1.rows) |-> IssueMonth(t1.rows[i])])
                r == RunProgram(CohortPreviewProgram, t.cols)
                err == IF r.error # "none" THEN r.error
                       ELSE IF fault # "none" THEN fault
                       ELSE IF ~dashboardsDir THEN "FileNotFoundError"
                       ELSE "none"
            IN /\ cdf' = t
               /\ reads' = reads \cup {"loan_status", "issue_d"} \cup r.reads
               /\ derived' = derived \cup {"is_default", "issue_date", "issue_month"}
               /\ IF err = "none"
                  THEN /\ errorKind' = "none"
                       /\ images' = images \cup {"dashboards/cohort_analysis.png"}
                       /\ messages' = messages \o
                            <<[kind |-> "print", text |-> "Created"],
                              [kind |-> "print", text |-> "DASHBOARD CREATION COMPLETE"]>>
                  ELSE /\ errorKind' = err
                       /\ messages' = Append(messages, PrintError)
                       /\ UNCHANGED images
    /\ cpc' = "done"
    /\ UNCHANGED <<mt, npState, genOnly, cfgVars, firstRender, consumer, processedFile, sampleFile, cache,
                   attempts, view, derivations, firstDerived, fsChanges, dashboardsDir>>

ConsNext ==
    \/ FileChange
    \/ DashRun
    \/ DashLoadCached
    \/ DashTryProcessed
    \/ DashTrySample
    \/ DashSynthetic
    \/ DashSidebar
    \/ DashRenderPage
    \/ ExpLoad
    \/ ExpDerive
    \/ ExpDeriveAgain
    \/ ExpAnalysis
    \/ PrevRisk
    \/ PrevCohort

SpecCons == ConsInit /\ [][ConsNext]_vars

----------------------------------------------------------------------------
(* The dashboard on a processed file of more rows than the Data Explorer's *)
(* table shows                                                             *)

ExplorerInit ==
    /\ GenOff
    /\ CfgOff
    /\ mt \in 1..MaxExplorerGens
    /\ npState = [key |-> 0, pos |-> 0]
    /\ consumer = "dashboard"
    /\ processedFile = File(GenerateSyntheticData(MaxExplorerRows).table)
    /\ sampleFile = NoFile
    /\ cpc = "idle"
    /\ cdf = NoTable
    /\ cache = NoFile
    /\ attempts = <<>>
    /\ messages = <<>>
    /\ view = NoView
    /\ reads = {}
    /\ derived = {}
    /\ errorKind = "none"
    /\ derivations = 0
    /\ firstDerived = NoTable
    /\ fsChanges = 0
    /\ dashboardsDir = FALSE
    /\ images = {}
    /\ firstRender = NotTracking

ExplorerNext ==
    \/ DashRun
    \/ DashLoadCached
    \/ DashTryProcessed
    \/ DashSidebar
    \/ DashRenderPage

SpecExplorer == ExplorerInit /\ [][ExplorerNext]_vars

----------------------------------------------------------------------------
(* The dashboard over several runs, with the first render kept for         *)
(* comparison                                                              *)

ViewsInit ==
    /\ GenOff
    /\ CfgOff
    /\ mt \in 1..MaxViewGens
    /\ npState = [key |-> 0, pos |-> 0]
    /\ consumer = "dashboard"
    /\ processedFile = File(GenerateSyntheticData(MaxViewRows).table)
    /\ sampleFile = NoFile
    /\ cpc = "idle"
    /\ cdf = NoTable
    /\ cache = NoFile
    /\ attempts = <<>>
    /\ messages = <<>>
    /\ view = NoView
    /\ reads = {}
    /\ derived = {}
    /\ errorKind = "none"
    /\ derivations = 0
    /\ firstDerived = NoTable
    /\ fsChanges = 0
    /\ dashboardsDir = FALSE
    /\ images = {}
    /\ firstRender = Tracking

SpecViews == ViewsInit /\ [][ExplorerNext]_vars

----------------------------------------------------------------------------
(* config/config.py imported, and get_data_path called *)

MaxRoots == 2

\* RANDOM_SEED not set, set to a number, set to a text that is no number;
\* the checkout in one of MaxRoots places
Environments ==
    [RANDOM_SEED : {NotSet, EnvText(<<"4", "2">>), EnvText(<<"7">>), EnvText(<<"x">>)},
     root : {<<"/", "srv">> \o [k \in 1..j |-> "repo"] : j \in 1..MaxRoots}]

\* file names, plain or with a directory in front
Filenames == {<<"sample_loans_10k.csv">>, <<"loans_with_features.csv">>,
              <<"lending_club", "accepted.csv">>}

\* the data_type values: the five of the dict, and others
DataTypes == DataDirNames \cup {"Raw", "models", "", "None"}

\* from config.config import ...: the module body runs
ConfigImport ==
    /\ config.state = "none"
    /\ config' = LoadConfig(env)
    /\ errorKind' = IF config'.state = "failed" THEN "ValueError" ELSE errorKind
    /\ UNCHANGED <<mt, npState, genOnly, env, writes, data_path, consumer, processedFile,
                   sampleFile, cpc, cdf, cache, attempts, messages, view, reads, derived,
                   derivations, firstDerived, fsChanges, dashboardsDir, images, firstRender>>

\* get_data_path(filename, data_type)
GetDataPath ==
    /\ config.state = "loaded"
    /\ \E filename \in Filenames, data_type \in DataTypes :
        data_path' = [called |-> TRUE, filename |-> filename, data_type |-> data_type,
                      path |-> get_data_path(filename, data_type)]
    /\ UNCHANGED <<mt, npState, genOnly, consVars, env, config, writes>>

ConfigInit ==
    /\ GenOff
    /\ mt = 1
    /\ npState = [key |-> 0, pos |-> 0]
    /\ consumer = "none"
    /\ processedFile = NoFile
    /\ sampleFile = NoFile
    /\ cpc = "off"
    /\ cdf = NoTable
    /\ cache = NoFile
    /\ attempts = <<>>
    /\ messages = <<>>
    /\ view = NoView
    /\ reads = {}
    /\ derived = {}
    /\ errorKind = "none"
    /\ derivations = 0
    /\ firstDerived = NoTable
    /\ fsChanges = 0
    /\ dashboardsDir = FALSE
    /\ images = {}
    /\ firstRender = NotTracking
    /\ env \in Environments
    /\ config = NotLoaded
    /\ writes = <<>>
    /\ data_path = NoCall

ConfigNext ==
    \/ ConfigImport
    \/ GetDataPath

SpecConfig == ConfigInit /\ [][ConfigNext]_vars

----------------------------------------------------------------------------
(* scripts/utils/generate_sample_data.py run as a script *)

MaxScriptGens == 2

\* generate_sample_loans(10000): the count scaled to the model's largest table
ScriptRecords == MaxRecords

Printed(text) == [kind |-> "print", text |-> text]

\* the lines printed after the file is saved
ReportLines == <<Printed("Generated"), Printed("Saved to"), Printed("File size"),
                 Printed("Columns"), Printed("Memory usage"), Printed("DATA SUMMARY"),
                 Printed("Loan Status Distribution"), Printed("Grade Distribution"),
                 Printed("Sample Records"), Printed("SAMPLE DATA GENERATION COMPLETE")>>

\* how df.to_csv(output_path, index=False) can end: written, failed before the
\* file was opened, failed after it was opened for writing
WriteOutcomes == {"written", "open failed", "write failed"}

\* the banner, then df = generate_sample_loans(10000) entered
ScriptStart ==
    /\ consumer = "generator"
    /\ cpc = "idle"
    /\ config.state = "loaded"
    /\ gpc = "idle"
    /\ messages' = Append(messages, Printed("GENERATING SAMPLE CREDIT DATA"))
    /\ cpc' = "generate"
    /\ n_records' = ScriptRecords
    /\ calls' = calls + 1
    /\ gpc' = "seed"
    /\ dates' = <<>>
    /\ df' = NoTable
    /\ sampled' = NoTable
    /\ preRedraw' = NoTable
    /\ npAtCall' = npState
    /\ pyAtCall' = pyState
    /\ UNCHANGED <<mt, npState, pyState, returned, draws, cfgVars, consumer, processedFile,
                   sampleFile, cdf, cache, attempts, view, reads, derived, errorKind,
                   derivations, firstDerived, fsChanges, dashboardsDir, images, firstRender>>

\* the write tried again after a failure
ScriptSave_Retry ==
    /\ consumer = "generator"
    /\ cpc = "generate"
    /\ gpc = "idle"
    /\ Len(returned) = calls
    /\ Len(writes) < 2
    /\ \E outcome \in WriteOutcomes :
        LET csv == WriteCsv(returned[Len(returned)].table)
        IN /\ writes' = Append(writes, [path |-> SAMPLE_DATA_PATH \o <<"sample_loans_10k.csv">>,
                                        table |-> csv, outcome |-> outcome])
           /\ CASE outcome = "written" ->
                    /\ sampleFile' = File(csv)
                    /\ cpc' = "report"
                [] outcome = "open failed" ->
                    /\ UNCHANGED sampleFile
                    /\ cpc' = "generate"
                [] outcome = "write failed" ->
                    /\ \E k \in 0..Len(csv.rows) : sampleFile' = File(HeadRows(csv, k))
                    /\ cpc' = "generate"
    /\ UNCHANGED <<mt, npState, genOnly, env, config, data_path, consumer, processedFile,
                   cdf, cache, attempts, messages, view, reads, derived, errorKind,
                   derivations, firstDerived, fsChanges, dashboardsDir, images, firstRender>>

\* output_path = SAMPLE_DATA_PATH / 'sample_loans_10k.csv'
\* df.to_csv(output_path, index=False): no handler around it
ScriptSave ==
    /\ consumer = "generator"
    /\ cpc = "generate"
    /\ gpc = "idle"
    /\ Len(returned) = calls
    /\ \E outcome \in WriteOutcomes :
        LET csv == WriteCsv(returned[Len(returned)].table)
        IN /\ writes' = Append(writes, [path |-> SAMPLE_DATA_PATH \o <<"sample_loans_10k.csv">>,
                                        table |-> csv, outcome |-> outcome])
           /\ CASE outcome = "written" ->
                    /\ sampleFile' = File(csv)
                    /\ cpc' = "report"
                    /\ UNCHANGED errorKind
                [] outcome = "open failed" ->
                    /\ UNCHANGED sampleFile
                    /\ errorKind' = "OSError"
                    /\ cpc' = "crashed"
                [] outcome = "write failed" ->
                    /\ \E k \in 0..Len(csv.rows) : sampleFile' = File(HeadRows(csv, k))
                    /\ errorKind' = "OSError"
                    /\ cpc' = "crashed"
    /\ UNCHANGED <<mt, npState, genOnly, env, config, data_path, consumer, processedFile,
                   cdf, cache, attempts, messages, view, reads, derived,
                   derivations, firstDerived, fsChanges, dashboardsDir, images, firstRender>>

\* the statistics, the summary and the closing lines
ScriptReport ==
    /\ consumer = "generator"
    /\ cpc = "report"
    /\ messages' = messages \o ReportLines
    /\ cpc' = "done"
    /\ UNCHANGED <<mt, npState, genOnly, cfgVars, consumer, processedFile, sampleFile,
                   cdf, cache, attempts, view, reads, derived, errorKind,
                   derivations, firstDerived, fsChanges, dashboardsDir, images, firstRender>>

ScriptInit ==
    /\ mt \in 1..MaxScriptGens
    /\ npState = [key |-> 0, pos |-> 0]
    /\ pyState = [key |-> 0, pos |-> 0]
    /\ gpc = "idle"
    /\ n_records = 0
    /\ dates = <<>>
    /\ df = NoTable
    /\ sampled = NoTable
    /\ preRedraw = NoTable
    /\ returned = <<>>
    /\ npAtCall = npState
    /\ pyAtCall = pyState
    /\ calls = 0
    /\ draws = 0
    /\ consumer = "generator"
    /\ processedFile = NoFile
    /\ sampleFile \in {NoFile} \cup {File(t) : t \in SampleTables}
    /\ cpc = "idle"
    /\ cdf = NoTable
    /\ cache = NoFile
    /\ attempts = <<>>
    /\ messages = <<>>
    /\ view = NoView
    /\ reads = {}
    /\ derived = {}
    /\ errorKind = "none"
    /\ derivations = 0
    /\ firstDerived = NoTable
    /\ fsChanges = 0
    /\ dashboardsDir = FALSE
    /\ images = {}
    /\ firstRender = NotTracking
    /\ env \in Environments
    /\ config = NotLoaded
    /\ writes = <<>>
    /\ data_path = NoCall

ScriptNext ==
    \/ ConfigImport
    \/ ScriptStart
    \/ Seed
    \/ Dates
    \/ Columns
    \/ GradeRule
    \/ FicoRule
    \/ Redraw
    \/ FicoHigh
    \/ Return
    \/ ScriptSave
    \/ ScriptReport

SpecScript == ScriptInit /\ [][ScriptNext]_vars

----------------------------------------------------------------------------
(* The correlation rules on one record with every combination of the       *)
(* values they test: generate_sample_loans(1) right after its DataFrame is *)
(* built                                                                   *)

MaxRuleGens == 2

RulesInit ==
    /\ ConsOff
    /\ CfgOff
    /\ mt \in 1..MaxRuleGens
    /\ npState = [key |-> SeedState(SEED).key, pos |-> Len(NumpyColumns)]
    /\ pyState = [key |-> SeedState(SEED).key, pos |-> 1]
    /\ gpc = "rule_grade"
    /\ n_records = 1
    /\ dates = <<DayOffsets[1]>>
    /\ \E rate \in Range(NumpyColumns[ColumnIndex("int_rate")][2]),
          grade \in Range(GRADES),
          fico \in Range(NumpyColumns[ColumnIndex("fico_range_low")][2]),
          dti \in Range(NumpyColumns[ColumnIndex("dti")][2]) :
        df = BuildFrame(1, dates,
                [i \in 1..Len(NumpyColumns) |->
                    <<CASE NumpyColumns[i][1] = "int_rate" -> rate
                        [] NumpyColumns[i][1] = "grade" -> grade
                        [] NumpyColumns[i][1] = "fico_range_low" -> fico
                        [] NumpyColumns[i][1] = "dti" -> dti
                        [] OTHER -> NumpyColumns[i][2][1]>>])
    /\ sampled = df
    /\ preRedraw = NoTable
    /\ returned = <<>>
    /\ npAtCall = [key |-> 0, pos |-> 0]
    /\ pyAtCall = [key |-> 0, pos |-> 0]
    /\ calls = 1
    /\ draws = 0

RulesNext ==
    \/ GradeRule
    \/ FicoRule
    \/ Redraw
    \/ FicoHigh
    \/ Return

SpecRules == RulesInit /\ [][RulesNext]_vars

----------------------------------------------------------------------------
(* Properties of generate_sample_loans *)

RowsOf(t) == {t.rows[i] : i \in 1..Len(t.rows)}

ReturnedTables == {returned[k].table : k \in 1..Len(returned)}

\* C1: every record of every table returned by generate_sample_loans(n), for
\* every n >= 0, has fico_range_high - fico_range_low = 5, whatever the two
\* columns were sampled as.
C1_FicoSpreadIsFive ==
    \A t \in ReturnedTables : \A r \in RowsOf(t) :
        r["fico_range_high"] - r["fico_range_low"] = 5

\* a call has returned a record whose two FICO columns were sampled with a
\* difference other than 5
C1_Witness ==
    /\ gpc = "idle"
    /\ Len(returned) > 0
    /\ returned[Len(returned)].table = df
    /\ \E i \in 1..Len(df.rows) :
        /\ sampled.rows[i]["fico_range_high"] - sampled.rows[i]["fico_range_low"] # 5
        /\ df.rows[i]["fico_range_high"] - df.rows[i]["fico_range_low"] = 5

GradeAndStatusValid(t) ==
    \A r \in RowsOf(t) :
        /\ r["grade"] \in {"A", "B", "C", "D", "E", "F", "G"}
        /\ r["loan_status"] \in {"Fully Paid", "Current", "Charged Off",
                                 "Late (31-120 days)", "Default"}

\* C2: every record has its grade in A..G and its loan_status in the fixed
\* status set, in the table as sampled, right before the high-DTI status
\* re-draw, after it, and in the table returned.
C2_GradeAndStatusInFixedSets ==
    /\ GradeAndStatusValid(sampled)
    /\ GradeAndStatusValid(preRedraw)
    /\ GradeAndStatusValid(df)
    /\ \A t \in ReturnedTables : GradeAndStatusValid(t)

\* the re-draw has replaced the status of a high-DTI record by another one
C2_Witness ==
    /\ gpc \in {"fico_high", "return", "idle"}
    /\ \E i \in 1..Len(df.rows) :
        /\ HighDti(df.rows[i])
        /\ preRedraw.rows[i]["loan_status"] # df.rows[i]["loan_status"]

\* C3: two calls of generate_sample_loans with the same record count return
\* identical tables, whatever the random sources' states were at each call.
C3_SameCountSameTable ==
    \A j, k \in 1..Len(returned) :
        returned[j].n = returned[k].n => returned[j].table = returned[k].table

\* two calls with the same positive record count have returned, started
\* with different states of both random sources
C3_Witness ==
    \E j, k \in 1..Len(returned) :
        /\ j < k
        /\ returned[j].n = returned[k].n
        /\ returned[j].n > 0
        /\ returned[j].np # returned[k].np
        /\ returned[j].py # returned[k].py

----------------------------------------------------------------------------
(* Properties of the consumers *)

LoadOrder == <<"processed", "sample", "synthetic">>

\* C4: load_data tries processed file, sample file, synthetic generation in
\* that order, each source only after the one before it was found missing,
\* and returns the table of the first source that is available.
C4_OrderedFallback ==
    /\ Len(attempts) <= Len(LoadOrder)
    /\ \A i \in 1..Len(attempts) : attempts[i].source = LoadOrder[i]
    /\ \A i \in 2..Len(attempts) : attempts[i - 1].file = NoFile
    /\ cache # NoFile =>
        /\ Len(attempts) >= 1
        /\ attempts[Len(attempts)].file # NoFile
        /\ cache = attempts[Len(attempts)].file

\* load_data found both files missing and returned the synthetic table
C4_Witness ==
    /\ cache # NoFile
    /\ Len(attempts) = 3
    /\ cdf = cache.table
    /\ cpc = "sidebar"

\* C5: in no consumer does a missing data file end the script with an
\* error; the consumer goes on with the next data source.
C5_MissingFileNeverFatal == errorKind # "FileNotFoundError"

\* C6: in the Data Explorer every record of the filtered table has its grade
\* in the selected grades, and the count shown in "Showing X of Y loans" is
\* the number of records of the filtered table, Y the size of the loaded one.
C6_GradeFilterAndCount ==
    (view.page = "Data Explorer" /\ view.error = "none") =>
        /\ \A r \in RowsOf(view.filtered) : r["loan_grade"] \in view.grade_filter
        /\ view.shown = Len(view.filtered.rows)
        /\ view.total = Len(cdf.rows)

\* the Data Explorer rendered a proper, non-empty part of the table for a
\* selection that leaves some grade out
C6_Witness ==
    /\ view.page = "Data Explorer"
    /\ view.error = "none"
    /\ view.grade_filter # {}
    /\ view.grade_filter # Unique(cdf, "loan_grade")
    /\ view.shown > 0
    /\ view.shown < view.total

\* C7: applying the default-flag rule again to a table that already carries
\* the flag leaves the is_default column and loan_status as they were.
C7_DefaultFlagIdempotent ==
    derivations >= 2 =>
        /\ Len(cdf.rows) = Len(firstDerived.rows)
        /\ \A i \in 1..Len(cdf.rows) :
            /\ cdf.rows[i]["is_default"] = firstDerived.rows[i]["is_default"]
            /\ cdf.rows[i]["loan_status"] = firstDerived.rows[i]["loan_status"]

\* the rule was applied twice to a table holding a default and a non-default
C7_Witness ==
    /\ derivations >= 2
    /\ \E i, j \in 1..Len(cdf.rows) :
        cdf.rows[i]["is_default"] = 1 /\ cdf.rows[j]["is_default"] = 0

\* C8: every component that derives the default flag sets is_default = 1
\* exactly for the records whose status is in the configuration's
\* DEFAULT_STATUSES, and 0 for the others.
C8_OneBadStatusSet ==
    ("is_default" \in derived /\ "is_default" \in cdf.cols) =>
        \A r \in RowsOf(cdf) :
            r["is_default"] = 1 <=> r["loan_status"] \in Range(DEFAULT_STATUSES)

\* C9: no page render of the dashboard ends with a missing-column error;
\* a column the table lacks is met by a presence check and a placeholder.
C9_NoMissingColumnError == consumer = "dashboard" => view.error = "none"

\* C10: every column a consumer reads without a presence check is a column
\* of the table generate_sample_loans produces, or one the consumer derived.
C10_SharedSchema == reads \subseteq SampleColumns \cup derived

----------------------------------------------------------------------------
(* Further properties of generate_sample_loans *)

\* the call is past both interest-rate rules
RulesApplied == gpc \in {"redraw", "fico_high", "return", "idle"}

\* C11: every record's final int_rate is the int_rate sampled for it, plus 5
\* when its grade is F or G, plus 3 when its fico_range_low is below 650
\* (plus 8 when both hold, unchanged when neither does).
C11_IntRateRules ==
    RulesApplied =>
        /\ Len(df.rows) = Len(sampled.rows)
        /\ \A i \in 1..Len(df.rows) :
            df.rows[i]["int_rate"] =
                sampled.rows[i]["int_rate"]
                + (IF sampled.rows[i]["grade"] \in {"F", "G"} THEN 500 ELSE 0)
                + (IF sampled.rows[i]["fico_range_low"] < 650 THEN 300 ELSE 0)

\* a call has returned a table holding a record raised by 8, one raised by 5
\* or by 3 alone, and one left as sampled
C11_Witness ==
    /\ gpc = "idle"
    /\ Len(returned) > 0
    /\ returned[Len(returned)].table = df
    /\ \E i \in 1..Len(df.rows) :
        df.rows[i]["int_rate"] = sampled.rows[i]["int_rate"] + 800
    /\ \E i \in 1..Len(df.rows) :
        df.rows[i]["int_rate"] - sampled.rows[i]["int_rate"] \in {300, 500}

\* the call is past the status re-draw
Redrawn == gpc \in {"fico_high", "return", "idle"}

\* C12: the re-draw changes the records with dti > 30 only, and of them the
\* loan_status only: such a record ends with Fully Paid, Charged Off or
\* Late (31-120 days); a record with dti <= 30 keeps the status sampled for
\* it; right after the re-draw every other column of every record is as it
\* was right before.
C12_RedrawFrame ==
    Redrawn =>
        /\ Len(df.rows) = Len(sampled.rows)
        /\ Len(df.rows) = Len(preRedraw.rows)
        /\ \A i \in 1..Len(df.rows) :
            /\ sampled.rows[i]["dti"] > 3000 =>
                    df.rows[i]["loan_status"] \in
                        {"Fully Paid", "Charged Off", "Late (31-120 days)"}
            /\ sampled.rows[i]["dti"] <= 3000 =>
                    df.rows[i]["loan_status"] = sampled.rows[i]["loan_status"]
            /\ gpc = "fico_high" =>
                    \A c \in SampleColumns \ {"loan_status"} :
                        df.rows[i][c] = preRedraw.rows[i][c]

\* the re-draw has run on a table holding a record with dti above 30 and a
\* record with dti of at most 30 that is Current or Default
C12_Witness ==
    /\ gpc = "fico_high"
    /\ npState # npAtCall
    /\ \E i \in 1..Len(df.rows) :
        /\ sampled.rows[i]["dti"] <= 3000
        /\ df.rows[i]["loan_status"] \in {"Current", "Default"}
    /\ \E i \in 1..Len(df.rows) : sampled.rows[i]["dti"] > 3000

----------------------------------------------------------------------------
(* Further properties of the dashboard *)

\* the rows of t passing the Data Explorer's active filters: grade and
\* status always, issue year when the table has the column and some year is
\* selected
PassingRows(t, grade_filter, year_filter, status_filter) ==
    {i \in 1..Len(t.rows) :
        /\ t.rows[i]["loan_grade"] \in grade_filter
        /\ t.rows[i]["loan_status"] \in status_filter
        /\ ("issue_year" \in t.cols /\ year_filter # {}) =>
                t.rows[i]["issue_year"] \in year_filter}

\* C13: the CSV handed to the Data Explorer's download button holds exactly
\* the records of the loaded table that pass the active filters, in order
\* and all of them, while the on-screen table holds the first 100 at most.
C13_ExportIsFilteredSubset ==
    (view.page = "Data Explorer" /\ view.error = "none") =>
        LET S == PassingRows(cdf, view.grade_filter, view.year_filter,
                             view.status_filter)
            all == WriteCsv(cdf)
        IN /\ Len(view.csv.rows) = Cardinality(S)
           /\ \A i \in S :
                view.csv.rows[Cardinality({j \in S : j <= i})] = all.rows[i]
           /\ Len(view.displayed.rows) <= HEAD_ROWS
           /\ Len(view.displayed.rows) <= Len(view.csv.rows)

\* the Data Explorer rendered more records than its table shows, and the
\* export holds every one of them
C13_Witness ==
    /\ view.page = "Data Explorer"
    /\ view.error = "none"
    /\ view.shown > HEAD_ROWS
    /\ Len(view.displayed.rows) = HEAD_ROWS
    /\ Len(view.csv.rows) = view.shown

\* what selects a render: the page and the values of its widgets
RenderKey(v) ==
    <<v.page, v.grade_filter, v.year_filter, v.status_filter, v.selected_segment>>

\* C14: over any sequence of page selections and filter changes the loaded
\* table stays the one load_data returned, and a render of the page and
\* widget values of the first render of the process produces what the first
\* render produced, whatever was shown in between.
C14_ViewsArePure ==
    /\ cache # NoFile =>
        /\ cdf = cache.table
        /\ cache = attempts[Len(attempts)].file
    /\ (firstRender.renders = 2 /\ view.page \in Pages
            /\ RenderKey(view) = RenderKey(firstRender.view)) =>
        view = firstRender.view

\* after the first render the Data Explorer was rendered again with the
\* selections of the first render, which left records in
C14_Witness ==
    /\ firstRender.renders = 2
    /\ view.page = "Data Explorer"
    /\ RenderKey(view) = RenderKey(firstRender.view)
    /\ view.shown > 0
    /\ view = firstRender.view

----------------------------------------------------------------------------
(* Further properties of the consumers *)

\* C15: no step of the exploration script, the dashboard or the preview
\* generator writes, changes or removes a data file: the two files change
\* only when something outside the consumer creates or removes one.
C15_ConsumersReadOnly ==
    [][fsChanges' = fsChanges =>
            (sampleFile' = sampleFile /\ processedFile' = processedFile)]_vars

\* a consumer holds the sample table with columns it derived, and the sample
\* file is still the table the generator wrote
C15_Witness ==
    /\ consumer \in {"exploration", "preview"}
    /\ fsChanges = 0
    /\ derived # {}
    /\ derived \subseteq cdf.cols
    /\ sampleFile # NoFile
    /\ derived \cap sampleFile.table.cols = {}
    /\ sampleFile.table = WriteCsv(GenerateSampleLoans(Len(cdf.rows)))

\* C16: an error other than a missing file or a missing column is caught by
\* no script: the script ends at the failing step, uncaught, and no handler
\* has printed anything.
C16_OtherErrorsUncaught ==
    errorKind \in Faults \ {"none"} =>
        /\ cpc = "crashed"
        /\ PrintError \notin Range(messages)

\* the status is in exactly one of the configuration's two lists
InOneCategory(status) ==
    (status \in Range(DEFAULT_STATUSES)) # (status \in Range(GOOD_STATUSES))

\* the tables generate_synthetic_data returned to load_data
SyntheticTables ==
    {attempts[k].file.table : k \in {j \in 1..Len(attempts) :
                                        attempts[j].source = "synthetic"}}

\* C17: DEFAULT_STATUSES and GOOD_STATUSES are disjoint, and the status of
\* every record of a table made by generate_sample_loans or by
\* generate_synthetic_data is in exactly one of the two lists.
C17_StatusPartition ==
    /\ Range(DEFAULT_STATUSES) \cap Range(GOOD_STATUSES) = {}
    /\ \A t \in ReturnedTables \cup {sampleFile.table} \cup SyntheticTables :
        \A r \in RowsOf(t) : InOneCategory(r["loan_status"])

----------------------------------------------------------------------------
(* Order of the steps of generate_sample_loans *)

\* the steps from the first correlation rule to the status re-draw
BeforeFicoHigh == {"rule_grade", "rule_fico", "redraw"}

\* C18: the assignment fico_range_high = fico_range_low + 5 comes after the
\* two interest-rate rules and the status re-draw, which leave both FICO
\* columns alone; the step after it is the return, and the table returned
\* is the table as the assignment left it.
C18_FicoAssignmentLast ==
    [][/\ gpc \in BeforeFicoHigh =>
            /\ gpc' \in BeforeFicoHigh \cup {"fico_high"}
            /\ \A i \in 1..Len(df.rows) :
                /\ df'.rows[i]["fico_range_low"] = df.rows[i]["fico_range_low"]
                /\ df'.rows[i]["fico_range_high"] = df.rows[i]["fico_range_high"]
       /\ gpc = "fico_high" =>
            /\ gpc' = "return"
            /\ \A i \in 1..Len(df.rows) :
                /\ df'.rows[i]["fico_range_low"] = df.rows[i]["fico_range_low"]
                /\ df'.rows[i]["fico_range_high"] = df.rows[i]["fico_range_low"] + 5
       /\ gpc = "return" =>
            /\ gpc' = "idle"
            /\ df' = df
            /\ returned'[Len(returned')].table = df]_vars

\* the call stands at its return with a record whose interest rate the rules
\* raised, whose status the re-draw set, and whose FICO bounds were sampled
\* more or less than 5 apart
C18_Witness ==
    /\ gpc = "return"
    /\ \E i \in 1..Len(df.rows) :
        /\ df.rows[i]["int_rate"] # sampled.rows[i]["int_rate"]
        /\ df.rows[i]["dti"] > 3000
        /\ sampled.rows[i]["fico_range_high"] # sampled.rows[i]["fico_range_low"] + 5
        /\ df.rows[i]["fico_range_high"] = df.rows[i]["fico_range_low"] + 5

----------------------------------------------------------------------------
(* The dashboard's cache *)

\* C19: once load_data has returned, its choice stands for the process:
\* the cache entry and the record of the sources tried never change again,
\* whatever happens to the data files, and every later run takes its table
\* from the cache.
C19_SourceChosenOnce ==
    [][cache # NoFile =>
            /\ cache' = cache
            /\ attempts' = attempts
            /\ cpc = "load" => cdf' = cache.table]_vars

\* a later run has taken the sample table from the cache although a
\* processed file has appeared since load_data fell back to the sample file
C19_Witness ==
    /\ cpc = "sidebar"
    /\ messages = <<>>
    /\ Len(attempts) = 2
    /\ attempts[2].file # NoFile
    /\ processedFile # NoFile
    /\ fsChanges > 0
    /\ cdf = attempts[2].file.table
    /\ cdf # processedFile.table

----------------------------------------------------------------------------
(* The Data Explorer's three selections *)

\* C20: the Data Explorer's filtered table holds exactly the loaded records
\* whose grade, issue year and status are each in the respective selection,
\* so that an empty selection of grades, of years or of statuses leaves no
\* record.
C20_ThreeSelectionsFilter ==
    (view.page = "Data Explorer" /\ view.error = "none" /\ "issue_year" \in cdf.cols) =>
        LET S == {i \in 1..Len(cdf.rows) :
                    /\ cdf.rows[i]["loan_grade"] \in view.grade_filter
                    /\ cdf.rows[i]["issue_year"] \in view.year_filter
                    /\ cdf.rows[i]["loan_status"] \in view.status_filter}
        IN /\ Len(view.filtered.rows) = Cardinality(S)
           /\ \A i \in S :
                view.filtered.rows[Cardinality({j \in S : j <= i})] = cdf.rows[i]
           /\ (view.grade_filter = {} \/ view.year_filter = {}
                    \/ view.status_filter = {}) => view.filtered.rows = <<>>

----------------------------------------------------------------------------
(* The generator script *)

\* C21: the generator script writes the sample CSV once at most, and once
\* when it ends normally; the table written is the whole table the call
\* returned; when the write fails the script ends there, with no second
\* write, and neither the 'Saved to' line nor the completion line is printed.
C21_WriteOnceAfterGeneration ==
    consumer = "generator" =>
        /\ Len(writes) <= 1
        /\ cpc = "done" =>
            /\ Len(writes) = 1
            /\ Printed("Saved to") \in Range(messages)
        /\ \A k \in 1..Len(writes) :
            /\ gpc = "idle"
            /\ Len(returned) = 1
            /\ writes[k].table = WriteCsv(returned[1].table)
            /\ Len(writes[k].table.rows) = ScriptRecords
        /\ \A k \in 1..Len(writes) :
            writes[k].outcome # "written" =>
                /\ cpc = "crashed"
                /\ errorKind = "OSError"
                /\ Printed("Saved to") \notin Range(messages)
                /\ Printed("SAMPLE DATA GENERATION COMPLETE") \notin Range(messages)

\* the write failed after the file was opened: the script has ended with the
\* file holding less than the table
C21_Witness ==
    /\ consumer = "generator"
    /\ cpc = "crashed"
    /\ Len(writes) = 1
    /\ writes[1].outcome = "write failed"
    /\ Len(writes[1].table.rows) > 0
    /\ sampleFile # File(writes[1].table)

----------------------------------------------------------------------------
(* What load_data tells the user *)

\* C22: in the step in which load_data returns its table, the messages
\* shown are one warning for every fallback step taken (every source found
\* missing before the one that gave the table) and nothing else: none when
\* the processed file loaded, warnings only otherwise.
C22_FallbackWarned ==
    [][(cache = NoFile /\ cache' # NoFile) =>
            /\ Len(messages') = Len(attempts') - 1
            /\ \A k \in 1..Len(messages') : messages'[k].kind = "warning"]_vars

----------------------------------------------------------------------------
(* The records of generate_sample_loans and their identifiers *)

\* C23: generate_sample_loans(n) returns n records; the record at index i
\* (from 0) has id LOAN_ followed by i in 8 digits and member_id MEM_
\* followed by i in 7 digits, so ids and member_ids are pairwise distinct;
\* from the DataFrame's construction to the return every step keeps the
\* number of the records and their order.
C23_RecordCountAndIds ==
    LET Decode(d) == d[Len(d)] + 10 * d[Len(d) - 1] + 100 * d[Len(d) - 2]
                     + 1000 * d[Len(d) - 3] + 10000 * d[Len(d) - 4]
                     + 100000 * d[Len(d) - 5] + 1000000 * d[Len(d) - 6]
                     + (IF Len(d) > 7 THEN 10000000 * d[Len(d) - 7] ELSE 0)
        IdsOf(t) ==
            /\ \A i \in 1..Len(t.rows) :
                /\ t.rows[i]["id"][1] = "LOAN_"
                /\ Len(t.rows[i]["id"][2]) = 8
                /\ Decode(t.rows[i]["id"][2]) = i - 1
                /\ t.rows[i]["member_id"][1] = "MEM_"
                /\ Len(t.rows[i]["member_id"][2]) = 7
                /\ Decode(t.rows[i]["member_id"][2]) = i - 1
            /\ \A i, j \in 1..Len(t.rows) :
                i # j => /\ t.rows[i]["id"] # t.rows[j]["id"]
                         /\ t.rows[i]["member_id"] # t.rows[j]["member_id"]
    IN /\ \A k \in 1..Len(returned) : Len(returned[k].table.rows) = returned[k].n
       /\ (gpc = "idle" /\ returned # <<>>) => IdsOf(returned[Len(returned)].table)
       /\ gpc \in {"rule_grade", "rule_fico", "redraw", "fico_high", "return"} =>
            /\ Len(df.rows) = n_records
            /\ Len(sampled.rows) = n_records
            /\ \A i \in 1..Len(df.rows) :
                /\ df.rows[i]["id"] = sampled.rows[i]["id"]
                /\ df.rows[i]["member_id"] = sampled.rows[i]["member_id"]
       /\ gpc = "return" =>
            /\ IdsOf(df)
            /\ \A i \in 1..Len(df.rows) :
                \A c \in SampleColumns \ {"int_rate", "loan_status", "fico_range_high"} :
                    df.rows[i][c] = sampled.rows[i][c]

\* a call for the largest table has returned it, and a call for no record
\* has returned the empty table
C23_Witness ==
    /\ gpc = "idle"
    /\ \E k \in 1..Len(returned) :
        /\ returned[k].n = MaxRecords
        /\ \E i \in 1..MaxRecords :
            \/ returned[k].table.rows[i]["fico_range_low"] < 650
            \/ returned[k].table.rows[i]["dti"] > 3000
    /\ \E k \in 1..Len(returned) :
        returned[k].n = 0 /\ returned[k].table.rows = <<>>

----------------------------------------------------------------------------
(* The order of the three correlation rules *)

\* at the status re-draw: the two rate rules give the same table in either
\* order; the re-draw leaves int_rate, grade, dti and fico_range_low of every
\* record as they are; its result is the same whatever value a column of
\* `unread` has in any record; and the rates are the same when the re-draw
\* runs before the rate rules instead of after them
OrderIndependent(unread) ==
    gpc = "redraw" =>
        LET after == RedrawStatus(df, npState)
            early == RuleLowFico(RuleLowGrade(RedrawStatus(sampled, npState).table))
            Status(t) == [i \in 1..Len(t.rows) |-> t.rows[i]["loan_status"]]
        IN /\ RuleLowGrade(RuleLowFico(sampled)) = df
           /\ \A i \in 1..Len(df.rows) :
                /\ \A c \in {"int_rate", "grade", "dti", "fico_range_low"} :
                    after.table.rows[i][c] = df.rows[i][c]
                /\ early.rows[i]["int_rate"] = after.table.rows[i]["int_rate"]
           /\ \A c \in unread : \A i \in 1..Len(df.rows) :
                \A v \in Range(NumpyColumns[ColumnIndex(c)][2]) :
                    LET other == RedrawStatus(
                            [df EXCEPT !.rows[i][c] = v], npState)
                    IN /\ Status(other.table) = Status(after.table)
                       /\ other.state = after.state

\* C24 as stated: the rate rules commute, and the re-draw neither changes nor
\* reads int_rate, grade, dti or fico_range_low.
C24_RedrawReadsNoRuleColumn ==
    OrderIndependent({"int_rate", "grade", "dti", "fico_range_low"})

\* C24 amended: the rate rules commute; the re-draw changes none of int_rate,
\* grade, dti and fico_range_low and reads none of int_rate, grade and
\* fico_range_low (it reads dti, for its mask), so the rate of a record does
\* not depend on whether the re-draw ran before or after the rate rules.
C24_RulesOrderIndependent == OrderIndependent({"int_rate", "grade", "fico_range_low"})

\* the call stands at the re-draw with a record both rate rules raised and a
\* record whose dti is above 30
C24_Witness ==
    /\ gpc = "redraw"
    /\ \E i \in 1..Len(df.rows) : LowGrade(df.rows[i]) /\ LowFico(df.rows[i])
    /\ \E i \in 1..Len(df.rows) : HighDti(df.rows[i])

----------------------------------------------------------------------------
(* The range of the interest rate *)

\* C25: in every table returned, every record's int_rate is at least 5 and
\* at most 33, and it is above 25 only when the record's grade is F or G or
\* its fico_range_low is below 650.
C25_IntRateRange ==
    \A t \in ReturnedTables \cup (IF RulesApplied THEN {df} ELSE {}) :
        \A r \in RowsOf(t) :
            /\ 500 <= r["int_rate"]
            /\ r["int_rate"] <= 3300
            /\ r["int_rate"] > 2500 => (LowGrade(r) \/ LowFico(r))

\* a call has returned a record sampled at 25 that both rules raised, to 33
C25_Witness ==
    /\ gpc = "idle"
    /\ \E t \in ReturnedTables : \E r \in RowsOf(t) :
        /\ LowGrade(r)
        /\ LowFico(r)
        /\ r["int_rate"] = 3300
    /\ sampled.rows[1]["int_rate"] = 2500

----------------------------------------------------------------------------
(* The generator and the configuration's random seed *)

\* C26: the table generate_sample_loans returns is the table of its record
\* count alone, whatever RANDOM_SEED is in the environment and hence
\* whatever the configuration's RANDOM_SEED and SAMPLE_RANDOM_STATE are: two
\* runs with the same record count return the same table.
C26_SeedIndependent ==
    \A k \in 1..Len(returned) :
        /\ config.state = "loaded"
        /\ config.RANDOM_SEED = IntOf(GetEnv(env.RANDOM_SEED, RANDOM_SEED_DEFAULT))
        /\ config.SAMPLE_RANDOM_STATE = config.RANDOM_SEED
        /\ returned[k].table = GenerateSampleLoans(returned[k].n)

\* the script has generated its table in a run whose environment sets
\* RANDOM_SEED to a number other than 42
C26_Witness ==
    /\ consumer = "generator"
    /\ env.RANDOM_SEED.set
    /\ config.RANDOM_SEED # SEED
    /\ config.SAMPLE_RANDOM_STATE # SEED
    /\ Len(returned) = 1
    /\ Len(returned[1].table.rows) = ScriptRecords
    /\ ScriptRecords > 0

----------------------------------------------------------------------------
(* The order of the preview generator's two steps *)

----------------------------------------------------------------------------
(* The categories of the synthetic table *)

\* C28: every record of a table made by generate_synthetic_data has one of
\* the four risk categories and one of the five FICO categories, for every
\* risk_score from 0 to 100 and every fico_score from 600 to 849, and a
\* score on a boundary (25, 50, 75; 670, 740, 800) is in the lower category.
C28_EveryRecordCategorised ==
    \A t \in SyntheticTables : \A r \in RowsOf(t) :
        /\ r["risk_category"] \in Range(RISK_LABELS)
        /\ r["fico_category"] \in Range(FICO_CATEGORY_LABELS)
        /\ r["risk_score"] = 2500 => r["risk_category"] = "Low Risk"
        /\ r["risk_score"] = 5000 => r["risk_category"] = "Medium Risk"
        /\ r["risk_score"] = 7500 => r["risk_category"] = "High Risk"
        /\ r["fico_score"] = 670 => r["fico_category"] = "Fair"
        /\ r["fico_score"] = 740 => r["fico_category"] = "Good"
        /\ r["fico_score"] = 800 => r["fico_category"] = "Very Good"

----------------------------------------------------------------------------
(* get_data_path *)

\* C29: get_data_path(filename, data_type) returns the file's path under
\* <project root>/data/<data_type> when data_type is raw, interim,
\* processed, sample or external, and under <project root>/data/raw for any
\* other data_type, without an error.
C29_DataPath ==
    data_path.called =>
        LET dir == IF data_path.data_type \in
                        {"raw", "interim", "processed", "sample", "external"}
                   THEN data_path.data_type ELSE "raw"
            base == env.root \o <<"data", dir>>
        IN /\ data_path.path = base \o data_path.filename
           /\ SubSeq(data_path.path, 1, Len(base)) = base
           /\ base \in config.made
           /\ errorKind = "none"

\* get_data_path was called with a data_type the dict does not hold, and
\* returned a path under the raw data directory
C29_Witness ==
    /\ data_path.called
    /\ data_path.data_type = "models"
    /\ Len(data_path.filename) = 2
    /\ data_path.path = env.root \o <<"data", "raw">> \o data_path.filename

====
